---- MODULE Spec2Model ----
(***************************************************************************)
(* Model of the Provision-ISR alarm server (src/alarm_server.py):          *)
(* the per-connection handler, the XML splitter and parser it relies on,   *)
(* the alert decision and the PagerDuty dispatcher with its time gate.     *)
(*                                                                         *)
(* Text is modelled as sequences of one-character strings so that case     *)
(* conversion, substring search and splitting are computed, not assumed.   *)
(* A read buffer is a sequence of lexical tokens (XML declaration, start   *)
(* tag, end tag, character data, word, space, CRLF, undecodable byte).     *)
(***************************************************************************)
EXTENDS Integers, Sequences, FiniteSets, TLC

\* ------------------------------------------------------------------ bounds
MaxConns == 2      \* connections of the concurrent specification
MaxSub == 1        \* sub-minute clock resolution: seconds part in 0..MaxSub

\* --------------------------------------------------------------- text
UpperLetters == <<"A","B","C","D","E","F","G","H","I","J","K","L","M",
                  "N","O","P","Q","R","S","T","U","V","W","X","Y","Z">>
LowerLetters == <<"a","b","c","d","e","f","g","h","i","j","k","l","m",
                  "n","o","p","q","r","s","t","u","v","w","x","y","z">>

IndexIn(c, letters) ==
    IF \E i \in 1..Len(letters) : letters[i] = c
    THEN CHOOSE i \in 1..Len(letters) : letters[i] = c
    ELSE 0

LowerChar(c) == IF IndexIn(c, UpperLetters) > 0
                THEN LowerLetters[IndexIn(c, UpperLetters)] ELSE c
UpperChar(c) == IF IndexIn(c, LowerLetters) > 0
                THEN UpperLetters[IndexIn(c, LowerLetters)] ELSE c

\* str.lower() and str.upper()
lower(s) == [i \in 1..Len(s) |-> LowerChar(s[i])]
upper(s) == [i \in 1..Len(s) |-> UpperChar(s[i])]

\* "sub in s"
Contains(s, sub) ==
    \E i \in 0..(Len(s) - Len(sub)) :
        \A j \in 1..Len(sub) : s[i + j] = sub[j]

\* bytes.startswith / str.startswith
StartsWith(s, pre) ==
    /\ Len(s) >= Len(pre)
    /\ \A j \in 1..Len(pre) : s[j] = pre[j]

\* str.split(",") : never empty, "" gives [""]
RECURSIVE SplitComma(_, _)
SplitComma(s, cur) ==
    IF s = <<>> THEN <<cur>>
    ELSE IF Head(s) = "," THEN <<cur>> \o SplitComma(Tail(s), <<>>)
    ELSE SplitComma(Tail(s), Append(cur, Head(s)))

Range(f) == {f[i] : i \in DOMAIN f}

\* --------------------------------------------------------------- time
HoursPerDay == 24
MinutesPerHour == 60

\* a time of day is <<hour, minute, sub>>; Python compares times
\* lexicographically on their fields
Ticks(t) == (t[1] * MinutesPerHour + t[2]) * (MaxSub + 1) + t[3]
TimeLE(a, b) == Ticks(a) <= Ticks(b)
TimeLT(a, b) == Ticks(a) < Ticks(b)

Digits == <<"0","1","2","3","4","5","6","7","8","9">>
DigitVal(c) == IndexIn(c, Digits) - 1

\* datetime.strptime(time_str, "%H:%M").time() on "HH:MM"
parse_time(s) ==
    << DigitVal(s[1]) * 10 + DigitVal(s[2]),
       DigitVal(s[4]) * 10 + DigitVal(s[5]),
       0 >>

\* os.getenv defaults of the paging window
DefaultStart == <<"0","0",":","0","0">>
DefaultEnd == <<"2","3",":","5","9">>

\* --------------------------------------------------------------- tokens
Decl == [k |-> "decl"]                     \* <?xml version="1.0" ...?>
Open(t) == [k |-> "open", tag |-> t]       \* <t ...>
Close(t) == [k |-> "close", tag |-> t]     \* </t>
Text(s) == [k |-> "text", s |-> s]         \* character data
Word(s) == [k |-> "w", s |-> s]            \* run of non-blank bytes
Sp == [k |-> "sp"]                         \* one blank
CRLF == [k |-> "crlf"]                     \* \r\n
BadByte == [k |-> "bad"]                   \* a byte that is not valid UTF-8

\* bytes.decode('utf-8') raises UnicodeDecodeError on an invalid byte
DecodeFails(buf) == \E i \in 1..Len(buf) : buf[i].k = "bad"

ConfigTag == <<"c","o","n","f","i","g">>
IsDeclAt(buf, i) == buf[i].k = "decl"
IsEndConfigAt(buf, i) == buf[i].k = "close" /\ buf[i].tag = ConfigTag

SubSeqFrom(buf, i) == SubSeq(buf, i, Len(buf))

\* re.findall(r'(<\?xml.*?<\/config>)', data, re.DOTALL): leftmost
\* declaration, shortest extent to a </config>, then resume after it
RECURSIVE split_xml_documents(_)
split_xml_documents(buf) ==
    IF ~ \E i \in 1..Len(buf) : IsDeclAt(buf, i) THEN <<>>
    ELSE LET i == CHOOSE x \in 1..Len(buf) :
                      /\ IsDeclAt(buf, x)
                      /\ \A y \in 1..(x - 1) : ~ IsDeclAt(buf, y)
         IN IF ~ \E j \in (i + 1)..Len(buf) : IsEndConfigAt(buf, j) THEN <<>>
            ELSE LET j == CHOOSE x \in (i + 1)..Len(buf) :
                              /\ IsEndConfigAt(buf, x)
                              /\ \A y \in (i + 1)..(x - 1) : ~ IsEndConfigAt(buf, y)
                 IN <<SubSeq(buf, i, j)>> \o split_xml_documents(SubSeqFrom(buf, j + 1))

\* ---------------------------------------------------------------- XML
\* Well-formedness as xml.etree.ElementTree.fromstring decides it: an
\* optional declaration first and only first, then exactly one element
\* with properly nested tags; outside it only blanks and line breaks.
IsBlank(tok) == tok.k \in {"sp", "crlf"}
IsCharData(tok) == tok.k \in {"text", "w", "sp", "crlf"}

\* scan toks[i..] with the stack of open tags; seen = a root was closed
RECURSIVE WellNested(_, _, _, _)
WellNested(toks, i, stack, seen) ==
    IF i > Len(toks) THEN stack = <<>> /\ seen
    ELSE LET tok == toks[i] IN
         CASE tok.k = "decl" -> FALSE
           [] tok.k = "bad" -> FALSE
           [] tok.k = "open" ->
                /\ ~ (stack = <<>> /\ seen)
                /\ WellNested(toks, i + 1, <<tok.tag>> \o stack, seen)
           [] tok.k = "close" ->
                /\ stack # <<>>
                /\ Head(stack) = tok.tag
                /\ WellNested(toks, i + 1, Tail(stack), Len(stack) = 1 \/ seen)
           [] OTHER ->
                /\ (stack = <<>> => IsBlank(tok))
                /\ WellNested(toks, i + 1, stack, seen)

\* the element tokens of a document: the declaration and the blanks
\* around the root removed
RECURSIVE StripLeft(_)
StripLeft(toks) ==
    IF toks # <<>> /\ IsBlank(Head(toks)) THEN StripLeft(Tail(toks)) ELSE toks
RECURSIVE StripRight(_)
StripRight(toks) ==
    IF toks # <<>> /\ IsBlank(toks[Len(toks)])
    THEN StripRight(SubSeq(toks, 1, Len(toks) - 1)) ELSE toks

Prolog(toks) == IF toks # <<>> /\ Head(toks).k = "decl" THEN Tail(toks) ELSE toks

\* ET.fromstring raises ParseError
ParseFails(toks) == ~ WellNested(Prolog(toks), 1, <<>>, FALSE)
\* ET.fromstring: the root element as its token sequence, root start tag first
fromstring(toks) == StripRight(StripLeft(Prolog(toks)))

\* nesting depth of position i of an element: the root start tag is at 0
RECURSIVE Depth(_, _)
Depth(el, i) ==
    IF i = 1 THEN 0
    ELSE Depth(el, i - 1)
         + (IF el[i - 1].k = "open" THEN 1 ELSE 0)
         - (IF el[i].k = "close" THEN 1 ELSE 0)

\* position of the end tag matching the start tag at i
MatchOf(el, i) ==
    CHOOSE j \in (i + 1)..Len(el) :
        /\ el[j].k = "close"
        /\ Depth(el, j) = Depth(el, i)
        /\ \A x \in (i + 1)..(j - 1) :
              ~ (el[x].k = "close" /\ Depth(el, x) = Depth(el, i))

\* xml_root.find(".//tag"): first proper descendant in document order,
\* as a position, 0 for None
find(el, tag) ==
    LET hits == {i \in 2..Len(el) : el[i].k = "open" /\ el[i].tag = tag}
    IN IF hits = {} THEN 0 ELSE CHOOSE i \in hits : \A x \in hits : i <= x

\* iteration over an element: positions of its direct children, in order
RECURSIVE StartTagsAt(_, _, _, _)
StartTagsAt(el, x, stop, d) ==
    IF x >= stop THEN <<>>
    ELSE (IF el[x].k = "open" /\ Depth(el, x) = d THEN <<x>> ELSE <<>>)
         \o StartTagsAt(el, x + 1, stop, d)
ChildrenOf(el, i) == StartTagsAt(el, i + 1, MatchOf(el, i), Depth(el, i) + 1)

\* Element.text: the character data straight after the start tag, or None
NoneVal == <<"None">>
RECURSIVE CharDataFrom(_, _)
CharDataFrom(el, x) ==
    IF x <= Len(el) /\ IsCharData(el[x])
    THEN <<el[x]>> \o CharDataFrom(el, x + 1) ELSE <<>>
TextTokens(el, i) == CharDataFrom(el, i + 1)
CharsOf(tok) == CASE tok.k \in {"text", "w"} -> tok.s
                  [] tok.k = "sp" -> <<" ">>
                  [] tok.k = "crlf" -> <<"\r", "\n">>
                  [] OTHER -> <<"<">>
RECURSIVE Join(_)
Join(toks) == IF toks = <<>> THEN <<>> ELSE CharsOf(Head(toks)) \o Join(Tail(toks))
TextOf(el, i) == IF TextTokens(el, i) = <<>> THEN NoneVal ELSE Join(TextTokens(el, i))


\* --------------------------------------------------------------- HTTP
\* position of the first \r\n\r\n, 0 if there is none
BlankLineAt(buf) ==
    LET hits == {i \in 1..(Len(buf) - 1) : buf[i].k = "crlf" /\ buf[i + 1].k = "crlf"}
    IN IF hits = {} THEN 0 ELSE CHOOSE i \in hits : \A x \in hits : i <= x

\* request.splitlines()[0]
FirstLine(buf) ==
    LET brk == {i \in 1..Len(buf) : buf[i].k = "crlf"}
    IN IF brk = {} THEN buf
       ELSE SubSeq(buf, 1, (CHOOSE i \in brk : \A x \in brk : i <= x) - 1)

\* str.split(): the maximal runs of non-blank characters
RECURSIVE SplitBlank(_, _)
SplitBlank(line, cur) ==
    IF line = <<>> THEN (IF cur = <<>> THEN <<>> ELSE <<cur>>)
    ELSE IF IsBlank(Head(line))
         THEN (IF cur = <<>> THEN <<>> ELSE <<cur>>) \o SplitBlank(Tail(line), <<>>)
         ELSE SplitBlank(Tail(line), cur \o CharsOf(Head(line)))

\* parse_http_post: "raises" for the ValueError of the two-way unpacking,
\* the IndexError of [1] and the UnicodeDecodeError of decode
parse_http_post(buf) ==
    LET words == SplitBlank(FirstLine(buf), <<>>) IN
    IF DecodeFails(buf) \/ BlankLineAt(buf) = 0 \/ Len(words) < 2
    THEN [raises |-> TRUE, path |-> <<>>, body |-> <<>>]
    ELSE [raises |-> FALSE, path |-> words[2],
          body |-> SubSeqFrom(buf, BlankLineAt(buf) + 2)]

POST == <<"P","O","S","T">>
SendKeepalive == <<"S","e","n","d","K","e","e","p","a","l","i","v","e">>
SendAlarmData == <<"S","e","n","d","A","l","a","r","m","D","a","t","a">>

\* ---------------------------------------------------------- responses
OkResponse == "<response>OK</response>"
InvalidXml == "<error>Invalid XML</error>"
InternalError == "<error>Internal Server Error</error>"
UnknownPost == "<error>Unknown HTTP POST request</error>"

\* ------------------------------------------------------------- state
VARIABLES
    paging_start_time,     \* PagerDutyTrigger.paging_start_time
    paging_end_time,       \* PagerDutyTrigger.paging_end_time
    pagerduty_alert_types, \* ProvisionISRHandler.pagerduty_alert_types (a list)
    clock,                 \* wall-clock time of day in Asia/Jerusalem
    gate,                  \* last observation of is_paging_time: <<now, result>>
    peers,                 \* number of peers that connect
    arriving,              \* per peer: the bytes its single read will return
    pc,                    \* per connection: position of its handle_client task
    data,                  \* per connection: the buffer read
    docs,                  \* per connection: documents still to process
    ctx,                   \* per connection: "try" or "except" of process_request
    tasks,                 \* per connection: the dispatch tasks it created
    written,               \* per connection: payloads passed to writer.write
    closed,                \* per connection: writer.close() was called
    faults                 \* per connection: failures the environment injected

vars == <<paging_start_time, paging_end_time, pagerduty_alert_types, clock, gate,
          peers, arriving, pc, data, docs, ctx, tasks, written, closed, faults>>
config == <<paging_start_time, paging_end_time, pagerduty_alert_types, peers, arriving>>

Conns == 1..MaxConns

\* ------------------------------------------------------------ the gate
\* variant: the end of the window is taken as inclusive
is_paging_time_at_EndInclusive(start, end, now) ==
    IF TimeLE(start, end)
    THEN TimeLE(start, now) /\ TimeLE(now, end)
    ELSE TimeLE(start, now) \/ TimeLE(now, end)

is_paging_time_at(start, end, now) ==
    IF TimeLE(start, end)
    THEN TimeLE(start, now) /\ TimeLT(now, end)
    ELSE TimeLE(start, now) \/ TimeLT(now, end)

is_paging_time == is_paging_time_at(paging_start_time, paging_end_time, clock)

\* ------------------------------------------------------- classification
AlarmStatusInfo == <<"a","l","a","r","m","S","t","a","t","u","s","I","n","f","o">>
DataTime == <<"D","a","t","a","T","i","m","e">>
DeviceInfo == <<"D","e","v","i","c","e","I","n","f","o">>
SmartType == <<"s","m","a","r","t","T","y","p","e">>
Mac == <<"m","a","c">>
Sn == <<"s","n">>
DeviceName == <<"d","e","v","i","c","e","N","a","m","e">>
TrueText == <<"t","r","u","e">>

\* variant: the heartbeat test comes before the alarm test
identify_request_type_HeartbeatFirst(root) ==
    IF find(root, DataTime) # 0 /\ find(root, DeviceInfo) # 0 THEN "heartbeat"
    ELSE IF find(root, AlarmStatusInfo) # 0 THEN "alarm"
    ELSE "unknown"

identify_request_type(root) ==
    IF find(root, AlarmStatusInfo) # 0 THEN "alarm"
    ELSE IF find(root, DataTime) # 0 /\ find(root, DeviceInfo) # 0 THEN "heartbeat"
    ELSE "unknown"

\* a dispatch task: st is new | filtered | skipped | posting | ok | failed | raised
NewTask(type) == [type |-> type, st |-> "new", now |-> <<>>]

\* variant: the status text is compared without lowering it
RECURSIVE AlarmTasks_NoLower(_, _)
AlarmTasks_NoLower(root, kids) ==
    IF kids = <<>> THEN <<>>
    ELSE (IF TextOf(root, Head(kids)) = TrueText
          THEN <<NewTask(root[Head(kids)].tag)>> ELSE <<>>)
         \o AlarmTasks_NoLower(root, Tail(kids))

\* variant: every event with a status text is dispatched
RECURSIVE AlarmTasks_All(_, _)
AlarmTasks_All(root, kids) ==
    IF kids = <<>> THEN <<>>
    ELSE <<NewTask(root[Head(kids)].tag)>> \o AlarmTasks_All(root, Tail(kids))

\* variant: an event is dropped when a later sibling has the same type
RECURSIVE AlarmTasks_Dedup(_, _)
AlarmTasks_Dedup(root, kids) ==
    IF kids = <<>> THEN <<>>
    ELSE (IF /\ lower(TextOf(root, Head(kids))) = TrueText
             /\ ~ \E j \in 2..Len(kids) : root[kids[j]].tag = root[Head(kids)].tag
          THEN <<NewTask(root[Head(kids)].tag)>> ELSE <<>>)
         \o AlarmTasks_Dedup(root, Tail(kids))

\* handle_alarm up to the gather: the tasks of the children whose lowered
\* text is "true"; raises AttributeError at a child without text
RECURSIVE AlarmTasks(_, _)
AlarmTasks(root, kids) ==
    IF kids = <<>> THEN <<>>
    ELSE (IF lower(TextOf(root, Head(kids))) = TrueText
          THEN <<NewTask(root[Head(kids)].tag)>> ELSE <<>>)
         \o AlarmTasks(root, Tail(kids))

handle_alarm(root) ==
    LET kids == ChildrenOf(root, find(root, AlarmStatusInfo)) IN
    IF \E i \in 1..Len(kids) : TextOf(root, kids[i]) = NoneVal
    THEN [raises |-> TRUE, tasks |-> <<>>]
    ELSE [raises |-> FALSE, tasks |-> AlarmTasks(root, kids)]

\* process_alarm / process_http_alarm: the allow-list test
InAlertTypes(type) == upper(type) \in Range(pagerduty_alert_types)

\* process_alarm and trigger_incident up to the POST, at time now
Dispatch(task, now) ==
    [task EXCEPT !.now = now,
                 !.st = IF ~ InAlertTypes(task.type) THEN "filtered"
                        ELSE IF ~ is_paging_time_at(paging_start_time, paging_end_time, now)
                             THEN "skipped"
                        ELSE "posting"]

Posted(t) == t.st \in {"posting", "ok", "failed", "raised"}
Finished(t) == t.st \in {"filtered", "skipped", "ok", "failed"}


\* ----------------------------------------- the synchronous code segments
\* The code between two suspension points runs atomically.  A segment's
\* outcome says where the task suspends next ("drain", "gather",
\* "await_post") or that process_request returned ("return"), with the
\* payload it wrote, if any.
Return(ts) == [next |-> "return", write |-> "", ctx |-> "try", docs |-> <<>>, tasks |-> ts]
Respond(payload, where, ts) ==
    [next |-> "drain", write |-> payload, ctx |-> where, docs |-> <<>>, tasks |-> ts]
\* variant: the ParseError handler acknowledges instead of reporting
OnParseError_Ack(ts) == Respond(OkResponse, "except", ts)
\* the handlers of lines 126-131
OnParseError(ts) == Respond(InvalidXml, "except", ts)
OnException(ts) == Respond(InternalError, "except", ts)

\* the for loop of process_request over the remaining documents; ts are
\* the tasks of the documents already handled
RECURSIVE RunDocs(_, _)
RunDocs(ds, ts) ==
    IF ds = <<>> THEN Respond(OkResponse, "try", ts)
    ELSE IF ParseFails(Head(ds)) THEN OnParseError(ts)
    ELSE LET root == fromstring(Head(ds))
             kind == identify_request_type(root)
         IN IF kind = "alarm"
            THEN LET r == handle_alarm(root) IN
                 IF r.raises THEN OnException(ts)
                 ELSE IF r.tasks = <<>> THEN RunDocs(Tail(ds), ts)
                 ELSE [next |-> "gather", write |-> "", ctx |-> "try",
                       docs |-> Tail(ds), tasks |-> ts \o r.tasks]
            ELSE RunDocs(Tail(ds), ts)    \* heartbeat and unknown: logged

\* variant: an absent element reads as an empty value
HttpDeviceInfoFails_Lenient(root) == FALSE

\* extract_http_device_info raises AttributeError when an element is absent
HttpDeviceInfoFails(root) ==
    find(root, Mac) = 0 \/ find(root, Sn) = 0 \/ find(root, DeviceName) = 0

\* handle_http_alarm with process_http_alarm and trigger_incident, to the POST
handle_http_alarm(body, now) ==
    IF ParseFails(body) THEN Return(<<>>)
    ELSE LET root == fromstring(body) IN
         IF find(root, SmartType) = 0 THEN OnException(<<>>)
         ELSE LET smart_type == TextOf(root, find(root, SmartType)) IN
              IF HttpDeviceInfoFails(root) \/ smart_type = NoneVal THEN OnException(<<>>)
              ELSE LET t == Dispatch(NewTask(smart_type), now) IN
                   IF t.st = "posting"
                   THEN [next |-> "await_post", write |-> "", ctx |-> "try",
                         docs |-> <<>>, tasks |-> <<t>>]
                   ELSE Return(<<t>>)

\* variant: an unrecognized path is logged without a response
handle_http_post_Silent(buf, now) ==
    LET req == parse_http_post(buf) IN
    IF req.raises THEN OnException(<<>>)
    ELSE IF Contains(req.path, SendAlarmData) THEN handle_http_alarm(req.body, now)
    ELSE Return(<<>>)

\* variant: a keepalive request is handled as an alarm
handle_http_post_KeepalivePages(buf, now) ==
    LET req == parse_http_post(buf) IN
    IF req.raises THEN OnException(<<>>)
    ELSE IF Contains(req.path, SendKeepalive) \/ Contains(req.path, SendAlarmData)
         THEN handle_http_alarm(req.body, now)
    ELSE Respond(UnknownPost, "try", <<>>)

handle_http_post(buf, now) ==
    LET req == parse_http_post(buf) IN
    IF req.raises THEN OnException(<<>>)
    ELSE IF Contains(req.path, SendKeepalive) THEN Return(<<>>)
    ELSE IF Contains(req.path, SendAlarmData) THEN handle_http_alarm(req.body, now)
    ELSE Respond(UnknownPost, "try", <<>>)

BeginsWithPost(buf) == buf # <<>> /\ buf[1].k = "w" /\ StartsWith(buf[1].s, POST)

\* variant: a raw buffer without a document is reported as invalid
process_request_Strict(buf, now) ==
    IF BeginsWithPost(buf) THEN handle_http_post(buf, now)
    ELSE IF DecodeFails(buf) THEN OnException(<<>>)
    ELSE IF split_xml_documents(buf) = <<>> THEN OnParseError(<<>>)
    ELSE RunDocs(split_xml_documents(buf), <<>>)

\* process_request from its entry to the first suspension
process_request(buf, now) ==
    IF BeginsWithPost(buf) THEN handle_http_post(buf, now)
    ELSE IF DecodeFails(buf) THEN OnException(<<>>)
    ELSE RunDocs(split_xml_documents(buf), <<>>)

\* the effect of a segment's outcome on connection c; on "return"
\* handle_client goes on to writer.close() and awaits wait_closed()
Continue(c, r) ==
    /\ pc' = [pc EXCEPT ![c] = IF r.next = "return" THEN "wait_closed" ELSE r.next]
    /\ closed' = [closed EXCEPT ![c] = (r.next = "return")]
    /\ written' = [written EXCEPT ![c] = IF r.next = "drain" THEN Append(@, r.write) ELSE @]
    /\ ctx' = [ctx EXCEPT ![c] = r.ctx]
    /\ docs' = [docs EXCEPT ![c] = r.docs]
    /\ tasks' = [tasks EXCEPT ![c] = r.tasks]

\* ------------------------------------------------------------ actions
\* variant: the listener serves one connection at a time
Accept_Serial(c) ==
    /\ pc[c] = "idle"
    /\ c <= peers
    /\ \A d \in Conns \ {c} : pc[d] \in {"idle", "done"}
    /\ pc' = [pc EXCEPT ![c] = "read"]
    /\ UNCHANGED <<config, clock, gate, data, docs, ctx, tasks, written, closed, faults>>

\* asyncio.start_server: a task running handle_client per accepted peer
Accept(c) ==
    /\ pc[c] = "idle"
    /\ c <= peers
    /\ pc' = [pc EXCEPT ![c] = "read"]
    /\ UNCHANGED <<config, clock, gate, data, docs, ctx, tasks, written, closed, faults>>

\* reader.read(4096) returns bytes; handle_client runs on into process_request
ReadData(c) ==
    /\ pc[c] = "read"
    /\ arriving[c] # <<>>
    /\ data' = [data EXCEPT ![c] = arriving[c]]
    /\ Continue(c, process_request(arriving[c], clock))
    /\ UNCHANGED <<config, clock, gate, faults>>

\* reader.read(4096) returns b'' : the peer closed without sending
ReadEmpty(c) ==
    /\ pc[c] = "read"
    /\ arriving[c] = <<>>
    /\ Continue(c, Return(<<>>))
    /\ UNCHANGED <<config, clock, gate, data, faults>>

\* reader.read(4096) raises (connection reset): handle_client has no handler
ReadRaises(c) ==
    /\ pc[c] = "read"
    /\ pc' = [pc EXCEPT ![c] = "raised"]
    /\ faults' = [faults EXCEPT ![c] = @ \cup {"read"}]
    /\ UNCHANGED <<config, clock, gate, data, docs, ctx, tasks, written, closed>>

\* a task made by asyncio.gather runs process_alarm to the POST or its end;
\* the tasks start in the order of creation
TaskStart(c, i) ==
    /\ pc[c] = "gather"
    /\ i \in 1..Len(tasks[c])
    /\ tasks[c][i].st = "new"
    /\ \A j \in 1..(i - 1) : tasks[c][j].st # "new"
    /\ tasks' = [tasks EXCEPT ![c][i] = Dispatch(@, clock)]
    /\ UNCHANGED <<config, clock, gate, pc, data, docs, ctx, written, closed, faults>>

\* session.post completes with a status: 201, or another one (logged);
\* no completion is seen before every task of the gather has started
PostReturns(c, i, created) ==
    /\ i \in 1..Len(tasks[c])
    /\ tasks[c][i].st = "posting"
    /\ \A j \in 1..Len(tasks[c]) : tasks[c][j].st # "new"
    /\ tasks' = [tasks EXCEPT ![c][i].st = IF created THEN "ok" ELSE "failed"]
    /\ faults' = [faults EXCEPT ![c] = IF created THEN @ ELSE @ \cup {"status"}]
    /\ UNCHANGED <<config, clock, gate, pc, data, docs, ctx, written, closed>>

\* session.post raises (aiohttp.ClientError): trigger_incident has no handler
PostRaises(c, i) ==
    /\ i \in 1..Len(tasks[c])
    /\ tasks[c][i].st = "posting"
    /\ \A j \in 1..Len(tasks[c]) : tasks[c][j].st # "new"
    /\ tasks' = [tasks EXCEPT ![c][i].st = "raised"]
    /\ faults' = [faults EXCEPT ![c] = @ \cup {"post"}]
    /\ UNCHANGED <<config, clock, gate, pc, data, docs, ctx, written, closed>>

\* variant: the gather resumes as soon as one task is done
GatherResume_First(c) ==
    /\ pc[c] = "gather"
    /\ \A j \in 1..Len(tasks[c]) : tasks[c][j].st # "new"
    /\ \/ /\ \E j \in 1..Len(tasks[c]) : tasks[c][j].st = "raised"
          /\ Continue(c, OnException(tasks[c]))
       \/ /\ \E j \in 1..Len(tasks[c]) : Finished(tasks[c][j])
          /\ Continue(c, RunDocs(docs[c], tasks[c]))
    /\ UNCHANGED <<config, clock, gate, data, faults>>

\* await asyncio.gather(*alarm_tasks) resumes: with the first exception of
\* a task, or when all are done; the loop over the documents goes on
GatherResume(c) ==
    /\ pc[c] = "gather"
    /\ \A j \in 1..Len(tasks[c]) : tasks[c][j].st # "new"
    /\ \/ /\ \E j \in 1..Len(tasks[c]) : tasks[c][j].st = "raised"
          /\ Continue(c, OnException(tasks[c]))
       \/ /\ \A j \in 1..Len(tasks[c]) : Finished(tasks[c][j])
          /\ Continue(c, RunDocs(docs[c], tasks[c]))
    /\ UNCHANGED <<config, clock, gate, data, faults>>

\* await trigger_incident of process_http_alarm resumes
HttpPostResume(c) ==
    /\ pc[c] = "await_post"
    /\ \/ /\ tasks[c][1].st = "raised"
          /\ Continue(c, OnException(tasks[c]))
       \/ /\ Finished(tasks[c][1])
          /\ Continue(c, Return(tasks[c]))
    /\ UNCHANGED <<config, clock, gate, data, faults>>

\* writer.drain() of send_response returns; process_request returns
DrainReturns(c) ==
    /\ pc[c] = "drain"
    /\ Continue(c, Return(tasks[c]))
    /\ UNCHANGED <<config, clock, gate, data, faults>>

\* writer.drain() raises: inside the try it is handled by `except Exception`,
\* which sends again; inside a handler it leaves process_request and
\* handle_client
DrainRaises(c) ==
    /\ pc[c] = "drain"
    /\ faults' = [faults EXCEPT ![c] = @ \cup {"drain"}]
    /\ IF ctx[c] = "try"
       THEN Continue(c, OnException(tasks[c]))
       ELSE /\ pc' = [pc EXCEPT ![c] = "raised"]
            /\ UNCHANGED <<docs, ctx, tasks, written, closed>>
    /\ UNCHANGED <<config, clock, gate, data>>

\* writer.wait_closed() returns or raises
WaitClosed(c, ok) ==
    /\ pc[c] = "wait_closed"
    /\ pc' = [pc EXCEPT ![c] = IF ok THEN "done" ELSE "raised"]
    /\ faults' = [faults EXCEPT ![c] = IF ok THEN @ ELSE @ \cup {"wait_closed"}]
    /\ UNCHANGED <<config, clock, gate, data, docs, ctx, tasks, written, closed>>


\* the wall clock moves on
Tick(t) ==
    /\ t # clock
    /\ clock' = t
    /\ UNCHANGED <<config, gate, pc, data, docs, ctx, tasks, written, closed, faults>>

\* a call of is_paging_time, observed
CheckGate ==
    /\ gate' = <<clock, is_paging_time>>
    /\ UNCHANGED <<config, clock, pc, data, docs, ctx, tasks, written, closed, faults>>

\* ------------------------------------------------------------- inputs
Motion == <<"m","o","t","i","o","n">>
Sensor == <<"S","e","n","s","o","r">>
Tamper == <<"t","a","m","p","e","r">>
Val == <<"x">>
FalseText == <<"f","a","l","s","e">>
Elem(tag, txt) == <<Open(tag), Text(txt), Close(tag)>>
Empty(tag) == <<Open(tag), Close(tag)>>

Doc(inner) == <<Decl, Open(ConfigTag)>> \o inner \o <<Close(ConfigTag)>>
Device == <<Open(DeviceInfo)>> \o Elem(Sn, Val) \o <<Close(DeviceInfo)>>
HeartbeatDoc == Doc(Elem(DataTime, Val) \o Device)
UnknownDoc == Doc(Elem(DataTime, Val))
AlarmDoc(events) ==
    Doc(Device \o <<Open(AlarmStatusInfo)>> \o events \o <<Close(AlarmStatusInfo)>>)
\* a </config> reached with an element still open
MalformedDoc == <<Decl, Open(ConfigTag), Open(DataTime), Close(ConfigTag)>>
\* cut by the read before its </config>
TruncatedDoc == <<Decl, Open(ConfigTag)>> \o Device
\* a document whose root is not config
OtherRootDoc == <<Decl, Open(DeviceInfo)>> \o Elem(Sn, Val) \o <<Close(DeviceInfo)>>
\* a heartbeat that carries an event element outside any alarmStatusInfo
HeartbeatWithEvent == Doc(Elem(DataTime, Val) \o Device \o Elem(Motion, TrueText))
\* an alarm that also has the elements of a heartbeat
AlarmWithDataTime ==
    Doc(Elem(DataTime, Val) \o Device
        \o <<Open(AlarmStatusInfo)>> \o Elem(Motion, TrueText) \o <<Close(AlarmStatusInfo)>>)
\* DataTime below DeviceInfo: both are descendants of the root
DeepHeartbeatDoc == Doc(<<Open(DeviceInfo)>> \o Elem(DataTime, Val) \o <<Close(DeviceInfo)>>)
\* a well-formed document with a config element inside its config root
NestedDoc == Doc(Elem(ConfigTag, Val))
\* the same event twice within one message
RepeatedAlarm == AlarmDoc(Elem(Motion, TrueText) \o Elem(Motion, TrueText))

RawBuffers == {
    HeartbeatDoc,
    UnknownDoc,
    AlarmDoc(Elem(Motion, TrueText)),
    AlarmDoc(Elem(Motion, <<"T","r","u","e">>)),
    AlarmDoc(Elem(Motion, <<"T","R","U","E">>)),
    AlarmDoc(Elem(Tamper, TrueText)),
    AlarmDoc(Elem(Motion, FalseText)),
    AlarmDoc(Elem(Motion, FalseText) \o Elem(Sensor, FalseText)),
    AlarmDoc(Elem(Motion, <<"F","a","l","s","e">>)),
    AlarmDoc(Elem(Motion, <<"o","n">>)),
    AlarmDoc(Empty(Motion)),
    AlarmDoc(Elem(Motion, TrueText) \o Empty(Sensor)),
    AlarmDoc(<<>>),
    AlarmDoc(Elem(Motion, TrueText) \o Elem(Motion, TrueText)),
    AlarmDoc(Elem(Sensor, TrueText) \o Elem(Motion, FalseText) \o Elem(Tamper, TrueText)),
    MalformedDoc,
    TruncatedDoc,
    OtherRootDoc,
    <<Text(Val)>>,
    <<Close(ConfigTag)>> \o TruncatedDoc,
    <<BadByte, Text(Val)>>,
    <<BadByte>> \o HeartbeatDoc,
    HeartbeatDoc \o AlarmDoc(Elem(Motion, TrueText)),
    AlarmDoc(Elem(Motion, TrueText)) \o MalformedDoc,
    MalformedDoc \o AlarmDoc(Elem(Motion, TrueText)),
    AlarmDoc(Elem(Motion, TrueText)) \o AlarmDoc(Elem(Sensor, TrueText)),
    AlarmDoc(Empty(Motion)) \o MalformedDoc,
    HeartbeatDoc \o UnknownDoc,
    AlarmDoc(Empty(Motion)) \o AlarmDoc(Elem(Motion, TrueText)),
    HeartbeatWithEvent,
    AlarmWithDataTime,
    DeepHeartbeatDoc,
    Doc(Device),
    Doc(<<>>),
    Doc(<<Open(AlarmStatusInfo)>> \o Elem(Motion, FalseText) \o <<Close(AlarmStatusInfo)>>),
    Doc(Elem(DataTime, Val) \o Empty(AlarmStatusInfo)),
    NestedDoc \o HeartbeatDoc,
    AlarmDoc(Elem(Motion, TrueText)) \o RepeatedAlarm
}

Slash == <<"/">>
Http11 == <<"H","T","T","P","/","1",".","1">>
HostHdr == <<"H","o","s","t",":">>
RequestLine(path) == <<Word(POST), Sp, Word(path), Sp, Word(Http11), CRLF>>
Request(path, body) ==
    RequestLine(path) \o <<Word(HostHdr), Sp, Word(Val), CRLF, CRLF>> \o body
HttpAlarmBody(type) ==
    Doc(Elem(SmartType, type) \o Elem(Mac, Val) \o Elem(Sn, Val) \o Elem(DeviceName, Val))

HttpBuffers == {
    Request(Slash \o SendKeepalive, <<>>),
    Request(Slash \o SendKeepalive, HttpAlarmBody(Motion)),
    Request(Slash \o SendAlarmData, HttpAlarmBody(Motion)),
    Request(Slash \o SendAlarmData, HttpAlarmBody(Tamper)),
    Request(Slash \o SendAlarmData, MalformedDoc),
    Request(Slash \o SendAlarmData, <<>>),
    Request(Slash \o SendAlarmData, Doc(Elem(SmartType, Motion) \o Elem(Mac, Val))),
    Request(Slash \o SendAlarmData, Doc(Elem(Mac, Val) \o Elem(Sn, Val) \o Elem(DeviceName, Val))),
    Request(Slash \o SendAlarmData, Doc(Empty(SmartType) \o Elem(Mac, Val) \o Elem(Sn, Val) \o Elem(DeviceName, Val))),
    Request(Slash \o SendAlarmData, Doc(Elem(SmartType, Motion) \o Elem(Sn, Val) \o Elem(DeviceName, Val))),
    Request(Slash \o SendAlarmData, Doc(Elem(SmartType, Motion) \o Elem(Mac, Val) \o Elem(DeviceName, Val))),
    Request(Slash \o SendAlarmData, Doc(Elem(SmartType, Motion) \o Elem(Mac, Val) \o Elem(Sn, Val))),
    Request(Slash \o Val, HttpAlarmBody(Motion)),
    Request(Slash, <<>>),
    RequestLine(Slash \o Val),
    RequestLine(Slash \o SendKeepalive),
    <<Word(POST), CRLF, CRLF>>,
    <<Word(POST \o Val), Sp, Word(Slash \o Val), CRLF, CRLF>>,
    <<Word(POST), Sp, Word(Slash \o Val), CRLF, CRLF, BadByte>>
}

Buffers == RawBuffers \cup HttpBuffers
\* the messages of the concurrent specification, by peer
ConcMessages == <<AlarmDoc(Elem(Motion, TrueText)),
                  Request(Slash \o SendAlarmData, HttpAlarmBody(Motion))>>

\* the messages of the specification of repeated events, by peer: the
\* first peer's event is the one the second peer's message holds twice
RepeatMessages == <<{<<>>, AlarmDoc(Elem(Motion, TrueText))},
                    {Request(Slash \o SendAlarmData, HttpAlarmBody(Motion)), RepeatedAlarm}>>

\* PAGING_START_TIME / PAGING_END_TIME
TwentyTwo == <<"2","2",":","0","0">>
Six == <<"0","6",":","0","0">>
WindowEnvs == {<<DefaultStart, DefaultEnd>>, <<TwentyTwo, Six>>}
\* PAGERDUTY_ALERT_TYPES; unset is ""
AlertEnvs == {<<>>, Motion \o <<",">> \o Sensor}
\* the times of day the clock is observed at
ClockSamples == {<<5, 0, 0>>, <<12, 0, 0>>, <<23, 59, MaxSub>>}

\* "%02d:%02d"
TimeStr(h, m) == <<Digits[(h \div 10) + 1], Digits[(h % 10) + 1], ":",
                   Digits[(m \div 10) + 1], Digits[(m % 10) + 1]>>
GateHours == {0, 6, 22, 23}
GateMinutes == {0, 59}
GateEnvs == {TimeStr(h, m) : h \in GateHours, m \in GateMinutes}
AllTimes == {<<h, m, x>> : h \in 0..(HoursPerDay - 1), m \in 0..(MinutesPerHour - 1),
                            x \in 0..MaxSub}

\* ------------------------------------------------------ specifications
\* ProvisionISRHandler.__init__ and PagerDutyTrigger.__init__, no peer yet
Setup(windows, alerts, times, n, messages) ==
    /\ \E w \in windows :
          /\ paging_start_time = parse_time(w[1])
          /\ paging_end_time = parse_time(w[2])
    /\ \E a \in alerts : pagerduty_alert_types = SplitComma(upper(a), <<>>)
    /\ clock \in times
    /\ gate = <<>>
    /\ peers = n
    /\ arriving \in [Conns -> UNION {messages[c] : c \in Conns}]
    /\ \A c \in Conns : arriving[c] \in messages[c]
    /\ pc = [c \in Conns |-> "idle"]
    /\ data = [c \in Conns |-> <<>>]
    /\ docs = [c \in Conns |-> <<>>]
    /\ ctx = [c \in Conns |-> "try"]
    /\ tasks = [c \in Conns |-> <<>>]
    /\ written = [c \in Conns |-> <<>>]
    /\ closed = [c \in Conns |-> FALSE]
    /\ faults = [c \in Conns |-> {}]

\* the steps of connection c; the read outcomes that need no parsing come
\* first, so that ENABLED Step(c) is decided without running process_request
Step(c) ==
    \/ Accept(c)
    \/ ReadRaises(c)
    \/ ReadEmpty(c)
    \/ ReadData(c)
    \/ \E i \in 1..Len(tasks[c]) : TaskStart(c, i)
    \/ \E i \in 1..Len(tasks[c]) : \E created \in BOOLEAN : PostReturns(c, i, created)
    \/ \E i \in 1..Len(tasks[c]) : PostRaises(c, i)
    \/ GatherResume(c)
    \/ HttpPostResume(c)
    \/ DrainReturns(c)
    \/ DrainRaises(c)
    \/ \E ok \in BOOLEAN : WaitClosed(c, ok)

Next ==
    \/ \E c \in Conns : Step(c)
    \/ \E t \in ClockSamples : Tick(t)

\* one peer, every message, every configuration
Init == Setup(WindowEnvs, AlertEnvs, ClockSamples, 1,
              [c \in Conns |-> IF c = 1 THEN Buffers \cup {<<>>} ELSE {<<>>}])
Spec == Init /\ [][Next]_vars

\* several peers at once; each sends its message or closes without sending
InitConc == Setup({<<DefaultStart, DefaultEnd>>}, {Motion \o <<",">> \o Sensor},
                  {<<12, 0, 0>>}, MaxConns,
                  [c \in Conns |-> {<<>>} \cup (IF c <= Len(ConcMessages)
                                               THEN {ConcMessages[c]} ELSE {})])
SpecConc == InitConc /\ [][Next]_vars

\* several peers sending the same event, while the clock stands inside
\* the window
InitRepeat == Setup({<<DefaultStart, DefaultEnd>>}, {Motion \o <<",">> \o Sensor},
                    {<<12, 0, 0>>}, MaxConns,
                    [c \in Conns |-> IF c <= Len(RepeatMessages)
                                     THEN RepeatMessages[c] ELSE {<<>>}])
NextRepeat == \E c \in Conns : Step(c)
SpecRepeat == InitRepeat /\ [][NextRepeat]_vars

\* the gate alone, over every time of day
InitGate == Setup({<<s, e>> : s \in GateEnvs, e \in GateEnvs}, {<<>>}, AllTimes, 0,
                  [c \in Conns |-> {<<>>}])
NextGate == CheckGate
SpecGate == InitGate /\ [][NextGate]_vars


\* ===================================================== properties
\* handle_client ended: it returned, or an exception left it
Ended(c) == pc[c] \in {"done", "raised"}
\* process_request is over and handle_client went on to close
Answered(c) == pc[c] \in {"wait_closed", "done"}
\* number of outbound POSTs connection c issued
PostCount(c) == Cardinality({i \in 1..Len(tasks[c]) : Posted(tasks[c][i])})
RawFramed(buf) == buf # <<>> /\ ~ BeginsWithPost(buf)

TypeOK ==
    /\ pc \in [Conns -> {"idle", "read", "gather", "await_post", "drain",
                         "wait_closed", "done", "raised"}]
    /\ \A c \in Conns : Len(written[c]) <= 2
    /\ \A c \in Conns : closed[c] <=> pc[c] \in {"wait_closed", "done"}
                                      \/ (pc[c] = "raised" /\ "wait_closed" \in faults[c])

\* C1 (as claimed): whenever handle_client has closed a connection,
\* exactly one response payload was written to it before: never zero,
\* never two.
C1_ExactlyOneResponse ==
    \A c \in Conns : closed[c] => Len(written[c]) = 1

\* C2 (as claimed): on every exit path of handle_client, the normal
\* return and an exception of the read, of the processing or of the write
\* alike, the connection has been closed.
C2_ClosedOnEveryExit ==
    \A c \in Conns : Ended(c) => closed[c]

\* ---- C3
\* the first document of ds that ET.fromstring rejects, 0 if none
FirstBad(ds) ==
    LET bad == {i \in 1..Len(ds) : ParseFails(ds[i])}
    IN IF bad = {} THEN 0 ELSE CHOOSE i \in bad : \A x \in bad : i <= x
\* a raw buffer that is malformed in the sense of the claim: it holds no
\* declaration-to-</config> span, or one of its spans does not parse
MalformedRaw(buf) ==
    /\ RawFramed(buf)
    /\ ~ DecodeFails(buf)
    /\ \/ split_xml_documents(buf) = <<>>
       \/ FirstBad(split_xml_documents(buf)) # 0

RaisesInHandling(d) ==
    /\ ~ ParseFails(d)
    /\ identify_request_type(fromstring(d)) = "alarm"
    /\ handle_alarm(fromstring(d)).raises
\* the event types the well-formed documents ds dispatch
RECURSIVE TypesOf(_)
TypesOf(ds) ==
    IF ds = <<>> THEN <<>>
    ELSE (IF identify_request_type(fromstring(Head(ds))) = "alarm"
          THEN LET ts == handle_alarm(fromstring(Head(ds))).tasks
               IN [i \in 1..Len(ts) |-> ts[i].type]
          ELSE <<>>) \o TypesOf(Tail(ds))
IsPrefix(a, b) == Len(a) <= Len(b) /\ \A i \in 1..Len(a) : a[i] = b[i]

RECURSIVE Settled(_)
Settled(r) ==
    IF r.next = "gather" THEN Settled(RunDocs(r.docs, r.tasks))
    ELSE IF r.next = "drain" THEN <<r.write>>
    ELSE <<>>

\* C4 (as claimed): a connection whose only failures are failures of the
\* paging call (a non-201 status or an error raised by the POST) answers
\* its peer exactly as it would have with every paging call succeeding.
C4_PagingFailureNotSurfaced ==
    \A c \in Conns :
        (Ended(c) /\ data[c] # <<>> /\ faults[c] # {} /\ faults[c] \subseteq {"post", "status"})
            => written[c] = Settled(process_request(data[c], clock))

\* ---- C5
TrueCasings == {<<"t","r","u","e">>, <<"T","r","u","e">>, <<"T","R","U","E">>}
Allowed == {<<"M","O","T","I","O","N">>, <<"S","E","N","S","O","R">>}
\* a raw alarm message with one event, status "true" in some casing, whose
\* uppercased type is in the configured allow-list
OneTrueEvent(buf) ==
    \E type \in {Motion, Sensor} : \E txt \in TrueCasings :
        /\ buf = AlarmDoc(Elem(type, txt))
        /\ upper(type) \in Allowed \cap Range(pagerduty_alert_types)
\* the gate of section 4.6 at time now, on the configured window
InWindow(now) ==
    LET s == Ticks(paging_start_time)
        e == Ticks(paging_end_time)
        n == Ticks(now)
    IN (s <= e /\ s <= n /\ n < e) \/ (s > e /\ (n >= s \/ n < e))

\* C5: a raw alarm message with one event of status "true" (any casing)
\* and allow-listed type starts one dispatch, which issues exactly one POST
\* when the gate is true at dispatch time and none when it is false.
C5_OnePostInsideWindowNoneOutside ==
    \A c \in Conns :
        OneTrueEvent(data[c]) =>
            /\ Len(tasks[c]) = 1
            /\ tasks[c][1].st # "new" =>
                  PostCount(c) = (IF InWindow(tasks[c][1].now) THEN 1 ELSE 0)
            /\ (Answered(c) \/ pc[c] = "drain") => tasks[c][1].st # "new"

\* C5 witness: "TRUE" was paged once, and the peer answered
C5_Witness ==
    /\ pc[1] = "done"
    /\ data[1] = AlarmDoc(Elem(Motion, <<"T","R","U","E">>))
    /\ PostCount(1) = 1
    /\ written[1] = <<OkResponse>>

\* ---- C6
\* a raw alarm message all of whose events have status text "false"
AllFalse(buf) ==
    buf \in {AlarmDoc(Elem(Motion, FalseText)),
             AlarmDoc(Elem(Motion, FalseText) \o Elem(Sensor, FalseText))}

\* C6: an alarm message whose events all have status "false" makes no
\* outbound request, whatever the window, the time and the allow-list.
C6_FalseStatusNeverPages ==
    \A c \in Conns : AllFalse(data[c]) => PostCount(c) = 0 /\ tasks[c] = <<>>

\* C6 witness: such a message was answered inside the window with its
\* event types in the allow-list
C6_Witness ==
    /\ pc[1] = "done"
    /\ data[1] = AlarmDoc(Elem(Motion, FalseText) \o Elem(Sensor, FalseText))
    /\ Allowed \subseteq Range(pagerduty_alert_types)
    /\ is_paging_time
    /\ written[1] = <<OkResponse>>

\* ---- C7
\* C7: is_paging_time is true iff (start <= end and start <= now < end)
\* or (start > end and (now >= start or now < end)); with start 22:00 and
\* end 06:00 it is true at 23:30 and false at 07:00 and at 06:00.
C7_GateFormula ==
    gate # <<>> =>
        /\ gate[2] = InWindow(gate[1])
        /\ (paging_start_time = <<22, 0, 0>> /\ paging_end_time = <<6, 0, 0>>) =>
              /\ gate[1] = <<23, 30, 0>> => gate[2] = TRUE
              /\ gate[1] = <<7, 0, 0>> => gate[2] = FALSE
              /\ gate[1] = <<6, 0, 0>> => gate[2] = FALSE

\* C7 witness: the wrapping window 22:00-06:00 observed open at 23:30
C7_Witness ==
    /\ paging_start_time = <<22, 0, 0>>
    /\ paging_end_time = <<6, 0, 0>>
    /\ gate = <<(<<23, 30, 0>>), TRUE>>

\* ---- C8
\* C8 (as claimed): with the window not configured the gate is true at
\* every time of day, from 00:00:00 to the end of 23:59.
C8_DefaultWindowIsFullDay ==
    (/\ paging_start_time = parse_time(DefaultStart)
     /\ paging_end_time = parse_time(DefaultEnd)
     /\ gate # <<>>)
        => gate[2] = TRUE

\* ---- C9
\* the path token of a POST buffer, empty when the request line has none
PathToken(buf) ==
    LET words == SplitBlank(FirstLine(buf), <<>>)
    IN IF Len(words) < 2 THEN <<>> ELSE words[2]
UnrecognizedPost(buf) ==
    /\ BeginsWithPost(buf)
    /\ ~ Contains(PathToken(buf), SendKeepalive)
    /\ ~ Contains(PathToken(buf), SendAlarmData)

\* C9 (as claimed): every POST buffer whose path contains neither
\* SendKeepalive nor SendAlarmData is answered exactly
\* <error>Unknown HTTP POST request</error>, also without the blank-line
\* delimiter or without a path token.
C9_UnknownPostAlways ==
    \A c \in Conns :
        (UnrecognizedPost(data[c]) /\ Answered(c) /\ faults[c] = {})
            => written[c] = <<UnknownPost>>

\* a POST buffer parse_http_post accepts: decodable, with the blank line
\* after the headers and a second word on the request line
WellFramedPost(buf) ==
    /\ ~ \E i \in 1..Len(buf) : buf[i] = BadByte
    /\ \E i \in 1..(Len(buf) - 1) : buf[i] = CRLF /\ buf[i + 1] = CRLF
    /\ PathToken(buf) # <<>>

\* C9 (amended): a POST buffer that is decodable, has the blank-line
\* delimiter and a path token, and whose path contains neither name, is
\* answered <error>Unknown HTTP POST request</error> first, followed by
\* the internal error payload only when draining it failed; without the
\* delimiter or the path token the answer is the internal error payload.
C9_UnknownPostWhenWellFramed ==
    \A c \in Conns :
        UnrecognizedPost(data[c]) =>
            IF WellFramedPost(data[c])
            THEN /\ written[c] # <<>>
                 /\ written[c][1] = UnknownPost
                 /\ Len(written[c]) > 1 =>
                       written[c] = <<UnknownPost, InternalError>> /\ "drain" \in faults[c]
            ELSE written[c] = <<InternalError>>

\* C9 witness: POST /x answered with the unknown-request payload and closed
C9_Witness ==
    /\ pc[1] = "done"
    /\ data[1] = Request(Slash \o Val, HttpAlarmBody(Motion))
    /\ written[1] = <<UnknownPost>>

\* ---- C10
\* C10: whatever the other connections are doing, stalled at a read, a
\* drain or a paging POST or ended by an exception, a connection that has
\* not ended can take its next step: be accepted, read, go on, close.
C10_NoConnectionBlocksAnother ==
    \A c \in Conns : (c <= peers /\ ~ Ended(c)) => ENABLED Step(c)

\* C10 witness: the second connection is still waiting for its paging
\* POST while the first, accepted after it stalled or before, was
\* answered and closed
C10_Witness ==
    /\ pc[2] = "await_post"
    /\ tasks[2][1].st = "posting"
    /\ pc[1] = "done"
    /\ closed[1]
    /\ written[1] = <<OkResponse>>

\* ---- C11
\* d is a well-formed document running from an XML declaration to the end
\* tag of its config root
IsConfigDocument(d) ==
    /\ Len(d) >= 3
    /\ d[1] = Decl
    /\ d[Len(d)] = Close(ConfigTag)
    /\ ~ ParseFails(d)
\* the places where buf divides into two such documents
TwoDocumentCuts(buf) ==
    {k \in 1..(Len(buf) - 1) :
        /\ IsConfigDocument(SubSeq(buf, 1, k))
        /\ IsConfigDocument(SubSeq(buf, k + 1, Len(buf)))}

\* C11 (as claimed): split_xml_documents applied to the concatenation of
\* two well-formed documents, each from its declaration to its closing
\* </config>, returns exactly the two documents, in their order.
C11_SplitReturnsTheTwoDocuments ==
    \A c \in Conns : \A k \in TwoDocumentCuts(data[c]) :
        split_xml_documents(data[c])
            = <<SubSeq(data[c], 1, k), SubSeq(data[c], k + 1, Len(data[c]))>>

\* ---- C12
\* document d has an alarmStatusInfo element: it is not a heartbeat and
\* not unknown
AlarmShaped(d) == \E i \in 1..Len(d) : d[i] = Open(AlarmStatusInfo)
\* the elements of d whose text, lowered, is "true"
TrueElements(d) ==
    Cardinality({i \in 1..(Len(d) - 1) :
                    /\ d[i].k = "open"
                    /\ d[i + 1].k = "text"
                    /\ lower(d[i + 1].s) = TrueText})
\* the most dispatches the alarm documents among ds can start
RECURSIVE AlarmEventBound(_)
AlarmEventBound(ds) ==
    IF ds = <<>> THEN 0
    ELSE (IF AlarmShaped(Head(ds)) THEN TrueElements(Head(ds)) ELSE 0)
         + AlarmEventBound(Tail(ds))

\* C12: a POST whose path contains SendKeepalive starts no dispatch and
\* makes no outbound request, and the heartbeat and unknown documents of a
\* raw buffer contribute none: the dispatches of a connection are bounded
\* by the events of its alarm documents, so a buffer without an alarm
\* document makes no request, whatever the allow-list, window and time.
C12_HeartbeatAndUnknownNeverPage ==
    \A c \in Conns :
        /\ (BeginsWithPost(data[c]) /\ Contains(PathToken(data[c]), SendKeepalive))
              => tasks[c] = <<>> /\ PostCount(c) = 0
        /\ (RawFramed(data[c]) /\ ~ DecodeFails(data[c]))
              => /\ Len(tasks[c]) <= AlarmEventBound(split_xml_documents(data[c]))
                 /\ PostCount(c) <= Len(tasks[c])

\* C12 witness: a heartbeat carrying <motion>true</motion> was answered
\* inside the window with MOTION in the allow-list, and nothing was sent
C12_Witness ==
    /\ pc[1] = "done"
    /\ data[1] = HeartbeatWithEvent
    /\ upper(Motion) \in Range(pagerduty_alert_types)
    /\ is_paging_time
    /\ written[1] = <<OkResponse>>
    /\ PostCount(1) = 0

\* ---- C13
\* a dispatch of connection c that was created and has not completed
Outstanding(c) == {i \in 1..Len(tasks[c]) : tasks[c][i].st \in {"new", "posting"}}

\* C13 (as claimed): while a dispatch of a raw alarm message has not
\* completed, handle_alarm has not resumed: the connection is still
\* suspended in the gather, with no response written and not closed, also
\* when a sibling dispatch raised; and once all are started, a dispatch
\* waiting for its POST can still complete, whatever happened to its
\* siblings.
C13_JoinBeforeResume ==
    \A c \in Conns :
        (RawFramed(data[c]) /\ Outstanding(c) # {}) =>
            /\ pc[c] = "gather"
            /\ written[c] = <<>>
            /\ ~ closed[c]
            /\ (\A i \in Outstanding(c) : tasks[c][i].st = "posting")
                  => \A i \in Outstanding(c) : ENABLED PostReturns(c, i, TRUE)

\* ---- C14
\* the event types document d dispatches when it is handled on its own:
\* none when it does not parse, is no alarm, or its handling raises
TypesAlone(d) ==
    IF ParseFails(d) THEN <<>>
    ELSE IF identify_request_type(fromstring(d)) # "alarm" THEN <<>>
    ELSE LET ts == handle_alarm(fromstring(d)).tasks
         IN [i \in 1..Len(ts) |-> ts[i].type]
RECURSIVE TypesIndependently(_)
TypesIndependently(ds) ==
    IF ds = <<>> THEN <<>> ELSE TypesAlone(Head(ds)) \o TypesIndependently(Tail(ds))

\* C14 (as claimed): the documents of a raw buffer are processed
\* independently: when process_request is over, the dispatches made are
\* those each document makes on its own, in order, so a document after one
\* that failed to parse or whose handling raised has still been handled.
C14_DocumentsIndependent ==
    \A c \in Conns :
        (RawFramed(data[c]) /\ ~ DecodeFails(data[c]) /\ Answered(c)) =>
            [i \in 1..Len(tasks[c]) |-> tasks[c][i].type]
                = TypesIndependently(split_xml_documents(data[c]))

\* ---- C15
\* buf is one well-formed raw alarm message
OneAlarmMessage(buf) ==
    /\ RawFramed(buf)
    /\ ~ DecodeFails(buf)
    /\ Len(split_xml_documents(buf)) = 1
    /\ ~ ParseFails(split_xml_documents(buf)[1])
    /\ AlarmShaped(split_xml_documents(buf)[1])
\* the children kids of alarmStatusInfo whose text, case-normalized, is
\* "true", by type and in order; an element without text is not one
RECURSIVE ActiveEvents(_, _)
ActiveEvents(root, kids) ==
    IF kids = <<>> THEN <<>>
    ELSE (IF /\ TextOf(root, Head(kids)) # NoneVal
             /\ lower(TextOf(root, Head(kids))) = TrueText
          THEN <<root[Head(kids)].tag>> ELSE <<>>)
         \o ActiveEvents(root, Tail(kids))

\* C15 (as claimed): for a raw alarm message the events forwarded to the
\* alert decision are exactly the children of alarmStatusInfo whose text
\* normalizes to "true", whatever the texts of the children are: "true" in
\* any casing, "false", another string, or no text at all.
C15_ForwardedIffTextIsTrue ==
    \A c \in Conns :
        (OneAlarmMessage(data[c]) /\ Answered(c)) =>
            LET root == fromstring(split_xml_documents(data[c])[1])
            IN [i \in 1..Len(tasks[c]) |-> tasks[c][i].type]
                  = ActiveEvents(root, ChildrenOf(root, find(root, AlarmStatusInfo)))

\* ---- C16
\* the parsed document d has an element named tag below its root
HasDescendant(d, tag) ==
    \E i \in 2..Len(fromstring(d)) : fromstring(d)[i] = Open(tag)
\* the classification of section 4.3
KindOf(d) ==
    CASE HasDescendant(d, AlarmStatusInfo) -> "alarm"
      [] /\ ~ HasDescendant(d, AlarmStatusInfo)
         /\ HasDescendant(d, DataTime)
         /\ HasDescendant(d, DeviceInfo) -> "heartbeat"
      [] OTHER -> "unknown"

\* C16: every document of a raw buffer that parses is classified alarm iff
\* it has an alarmStatusInfo descendant, DataTime and DeviceInfo present
\* or not; heartbeat iff it has none but has a DataTime and a DeviceInfo
\* descendant; unknown otherwise: one kind for every document.
C16_Classification ==
    \A c \in Conns :
        (RawFramed(data[c]) /\ ~ DecodeFails(data[c])) =>
            LET ds == split_xml_documents(data[c]) IN
            \A i \in 1..Len(ds) :
                ~ ParseFails(ds[i]) =>
                    /\ identify_request_type(fromstring(ds[i])) = KindOf(ds[i])
                    /\ identify_request_type(fromstring(ds[i]))
                          \in {"alarm", "heartbeat", "unknown"}

\* C16 witness: a document with DataTime, DeviceInfo and alarmStatusInfo
\* was handled as an alarm: its event was paged and the peer answered
C16_Witness ==
    /\ pc[1] = "done"
    /\ data[1] = AlarmWithDataTime
    /\ PostCount(1) = 1
    /\ written[1] = <<OkResponse>>

\* ---- C17
\* a POST that parse_http_post accepts and handle_http_post takes as an alarm
AlarmPost(buf) ==
    /\ BeginsWithPost(buf)
    /\ WellFramedPost(buf)
    /\ Contains(PathToken(buf), SendAlarmData)
    /\ ~ Contains(PathToken(buf), SendKeepalive)
\* what follows the first blank line
BodyOf(buf) ==
    LET at == CHOOSE i \in 1..(Len(buf) - 1) :
                  /\ buf[i] = CRLF /\ buf[i + 1] = CRLF
                  /\ \A j \in 1..(i - 1) : ~ (buf[j] = CRLF /\ buf[j + 1] = CRLF)
    IN SubSeq(buf, at + 2, Len(buf))
\* the body does not parse, or has no smartType, mac, sn or deviceName
BadAlarmBody(body) ==
    \/ ParseFails(body)
    \/ \E tag \in {SmartType, Mac, Sn, DeviceName} :
          ~ \E i \in 1..Len(body) : body[i] = Open(tag)

\* C17: a SendAlarmData POST whose body does not parse or lacks one of
\* smartType, mac, sn, deviceName starts no dispatch and makes no outbound
\* request; the peer gets nothing or the internal error payload, and
\* handle_client ends by an exception only if a socket operation failed:
\* otherwise the connection is closed as after any other message.
C17_BadHttpAlarmNoIncident ==
    \A c \in Conns :
        (AlarmPost(data[c]) /\ BadAlarmBody(BodyOf(data[c]))) =>
            /\ tasks[c] = <<>>
            /\ PostCount(c) = 0
            /\ pc[c] \in {"drain", "wait_closed", "done", "raised"}
            /\ pc[c] = "raised" => faults[c] \cap {"drain", "wait_closed"} # {}
            /\ pc[c] = "done" => closed[c]
            /\ faults[c] = {} =>
                  written[c] = IF ParseFails(BodyOf(data[c])) THEN <<>> ELSE <<InternalError>>

\* C17 witness: an alarm POST without a mac element, of an allow-listed
\* type and inside the window, was closed normally with nothing sent out
C17_Witness ==
    /\ pc[1] = "done"
    /\ data[1] = Request(Slash \o SendAlarmData,
                         Doc(Elem(SmartType, Motion) \o Elem(Sn, Val) \o Elem(DeviceName, Val)))
    /\ upper(Motion) \in Range(pagerduty_alert_types)
    /\ is_paging_time
    /\ closed[1]
    /\ faults[1] = {}
    /\ PostCount(1) = 0

\* ---- C18
\* every document of the raw buffer parses and is handled without an error
HandledWhole(buf) ==
    /\ RawFramed(buf)
    /\ ~ DecodeFails(buf)
    /\ \A i \in 1..Len(split_xml_documents(buf)) :
          /\ ~ ParseFails(split_xml_documents(buf)[i])
          /\ ~ RaisesInHandling(split_xml_documents(buf)[i])
\* the events of document d that are active and of an allow-listed type,
\* each occurrence counted
QualifyingIn(d) ==
    IF ~ AlarmShaped(d) THEN 0
    ELSE LET root == fromstring(d)
             act == ActiveEvents(root, ChildrenOf(root, find(root, AlarmStatusInfo)))
         IN Cardinality({i \in 1..Len(act) : upper(act[i]) \in Range(pagerduty_alert_types)})
RECURSIVE Qualifying(_)
Qualifying(ds) == IF ds = <<>> THEN 0 ELSE QualifyingIn(Head(ds)) + Qualifying(Tail(ds))

NoSpan(buf) ==
    /\ RawFramed(buf)
    /\ ~ \E i \in 1..Len(buf) : \E j \in (i + 1)..Len(buf) :
            buf[i] = Decl /\ buf[j] = Close(ConfigTag)
\* such a buffer that decodes as UTF-8
ZeroDocuments(buf) == NoSpan(buf) /\ ~ DecodeFails(buf)

\* C20 (as claimed): every non-empty raw buffer that holds no document,
\* arbitrary bytes included, is answered <response>OK</response> and makes
\* no outbound request.
C20_NoDocumentAlwaysOk ==
    \A c \in Conns :
        (NoSpan(data[c]) /\ Answered(c) /\ faults[c] = {}) =>
            written[c] = <<OkResponse>> /\ PostCount(c) = 0

\* C20 (amended): a raw buffer that decodes as UTF-8 and from which no
\* document is recovered (text, a document cut before its </config>, a
\* root that is not config) starts no dispatch, and the payload written for
\* it is <response>OK</response>: with no socket failure, exactly what a
\* handled heartbeat is answered.
C20_ZeroDocumentsAnsweredOk ==
    \A c \in Conns :
        ZeroDocuments(data[c]) =>
            /\ split_xml_documents(data[c]) = <<>>
            /\ tasks[c] = <<>>
            /\ PostCount(c) = 0
            /\ written[c] # <<>>
            /\ written[c][1] = OkResponse
            /\ faults[c] = {} => written[c] = Settled(process_request(HeartbeatDoc, clock))
            /\ (faults[c] = {} /\ Ended(c)) => closed[c]

\* C20 witness: a document cut before its </config> was answered OK and
\* the connection closed
C20_Witness ==
    /\ pc[1] = "done"
    /\ data[1] = TruncatedDoc
    /\ written[1] = <<OkResponse>>
    /\ closed[1]

====
